---- MODULE Spec2Model ----
(***************************************************************************)
(* Heart Disease Analysis Dashboard (heart_disease_app.py).                *)
(*                                                                         *)
(* The script is re-executed from top to bottom on every user interaction: *)
(* it loads heart.csv, preprocesses it, reads the sidebar page selector    *)
(* and runs the matching branch of the if/elif chain.  A state of the      *)
(* model is the state after one such run: the widget selections, the two   *)
(* module-level tables df and data, and what the run put on the display.   *)
(*                                                                         *)
(* A table is a record                                                     *)
(*    columns    : the column names in order                               *)
(*    dtype      : column -> "int64" | "category"                          *)
(*    categories : column -> the categories of a categorical column        *)
(*    vals       : column -> the column's values, one per row              *)
(* Floating point display values (the two averages of the Home page, the   *)
(* memory size, the correlation coefficients, describe()) are not modelled.*)
(***************************************************************************)
EXTENDS Integers, Sequences, FiniteSets, TLC

VARIABLES csv, page_sel, feat_sel, x_sel, y_sel, df, data, out

vars == <<csv, page_sel, feat_sel, x_sel, y_sel, df, data, out>>

(***************************************************************************)
(* Bounds of the input tables.                                             *)
(***************************************************************************)
\* rows of the tables that vary the class balance
MaxRows == 3

\* ages around every bin edge of line 24, and outside [0,100]
EdgeAges == {-1, 0, 1, 39, 40, 41, 49, 50, 51, 59, 60, 61, 99, 100, 101}
\* the ages of the longer tables: one that has a bin and one that has none
RowAges == {38, 101}
Targets == {0, 1}

\* pandas' missing value (what pd.cut gives a value no bin holds)
NaN == "NaN"
\* a widget the user has not touched
NoSel == "(default)"

(***************************************************************************)
(* Helpers on sequences.                                                   *)
(***************************************************************************)
Range(s) == {s[i] : i \in DOMAIN s}

Contains(s, e) == \E i \in DOMAIN s : s[i] = e

RECURSIVE Sum(_)
Sum(s) == IF s = << >> THEN 0 ELSE Head(s) + Sum(Tail(s))

CountOf(s, v) == Cardinality({i \in DOMAIN s : s[i] = v})

\* the distinct values of s in order of first appearance
RECURSIVE Unique(_)
Unique(s) ==
    IF s = << >> THEN << >>
    ELSE LET r == Unique(SubSeq(s, 1, Len(s) - 1))
             e == s[Len(s)]
         IN  IF Contains(r, e) THEN r ELSE Append(r, e)

\* ascending insertion sort of integers
RECURSIVE SortAsc(_)
SortAsc(s) ==
    IF s = << >> THEN << >>
    ELSE LET r == SortAsc(SubSeq(s, 1, Len(s) - 1))
             e == s[Len(s)]
             k == Cardinality({i \in DOMAIN r : r[i] <= e})
         IN  SubSeq(r, 1, k) \o <<e>> \o SubSeq(r, k + 1, Len(r))

\* Series.sort_values(ascending=False) on [key, count] pairs: descending by
\* count, equal counts keep their order
RECURSIVE sort_values_desc(_)
sort_values_desc(s) ==
    IF s = << >> THEN << >>
    ELSE LET r == sort_values_desc(SubSeq(s, 1, Len(s) - 1))
             e == s[Len(s)]
             k == Cardinality({i \in DOMAIN r : r[i].count >= e.count})
         IN  SubSeq(r, 1, k) \o <<e>> \o SubSeq(r, k + 1, Len(r))

(***************************************************************************)
(* The input file.                                                         *)
(***************************************************************************)
\* the columns of heart.csv that the script names
CsvColumns ==
    <<"age", "sex", "cp", "chol", "fbs", "restecg",
      "exang", "slope", "ca", "thal", "target">>

\* a file without the last two of them
ReducedColumns == SelectSeq(CsvColumns, LAMBDA c : c \notin {"ca", "thal"})

\* heart.csv as read_csv parses it: every column integer; the columns other
\* than age and target hold one fixed value
CsvTable(columns, ages, targets) ==
    [columns    |-> columns,
     dtype      |-> [c \in Range(columns) |-> "int64"],
     categories |-> [c \in Range(columns) |-> << >>],
     vals       |-> [c \in Range(columns) |->
                        IF c = "age" THEN ages
                        ELSE IF c = "target" THEN targets
                        ELSE [i \in DOMAIN ages |-> 0]]]

ScenarioAges == <<25, 45, 55, 65, 38>>
ScenarioTargets == <<0, 1, 1, 0, 0>>

TablesOver(ageSet, maxRows) ==
    UNION {{CsvTable(CsvColumns, a, t) :
                a \in [1..n -> ageSet], t \in [1..n -> Targets]}
           : n \in 1..maxRows}

\* one-row tables over the bin edges, tables of up to MaxRows rows, and the
\* five-row table of the documented scenario with and without ca and thal
Tables ==
    TablesOver(EdgeAges, 1) \cup TablesOver(RowAges, MaxRows)
        \cup {CsvTable(CsvColumns, ScenarioAges, ScenarioTargets),
              CsvTable(ReducedColumns, ScenarioAges, ScenarioTargets)}

NumRows(t) == Len(t.vals["age"])

\* load_data: the table of the file (st.cache_data hands out a fresh copy)
load_data(file) == file

(***************************************************************************)
(* preprocess_data (lines 18-37).                                          *)
(***************************************************************************)
\* data[name] = values: replaces the column, or appends a new one
SetColumn(t, name, values, dtype, cats) ==
    [columns    |-> IF Contains(t.columns, name) THEN t.columns
                    ELSE Append(t.columns, name),
     dtype      |-> [c \in DOMAIN t.dtype \cup {name} |->
                        IF c = name THEN dtype ELSE t.dtype[c]],
     categories |-> [c \in DOMAIN t.categories \cup {name} |->
                        IF c = name THEN cats ELSE t.categories[c]],
     vals       |-> [c \in DOMAIN t.vals \cup {name} |->
                        IF c = name THEN values ELSE t.vals[c]]]

bins == <<0, 40, 50, 60, 100>>
labels == <<"Young", "Middle", "Senior", "Elder">>

\* the bin of one value: pd.cut's defaults are right=True and
\* include_lowest=False, so bin i is (bins[i], bins[i+1]]
cut_value(v) ==
    IF \E i \in DOMAIN labels : bins[i] < v /\ v <= bins[i + 1]
    THEN labels[CHOOSE i \in DOMAIN labels : bins[i] < v /\ v <= bins[i + 1]]
    ELSE NaN

\* a last bin without a ceiling
cut_open_top(x) ==
    [i \in DOMAIN x |->
        IF x[i] > bins[Len(bins)] THEN labels[Len(labels)] ELSE cut_value(x[i])]

\* pd.cut(x, bins=bins, labels=labels)
cut(x) == [i \in DOMAIN x |-> cut_value(x[i])]

\* the list without the vessel count
categorical_cols_no_ca ==
    <<"sex", "cp", "fbs", "restecg", "exang", "slope", "thal">>

categorical_cols ==
    <<"sex", "cp", "fbs", "restecg", "exang", "slope", "ca", "thal">>

\* data[col] = data[col].astype("category"): the values stay, the column
\* becomes categorical over its sorted distinct values; a column that is
\* categorical already is returned as it is
astype_category(t, col) ==
    IF t.dtype[col] = "category" THEN t
    ELSE SetColumn(t, col, t.vals[col], "category",
                   SortAsc(Unique(t.vals[col])))

\* the loop of lines 33-35
RECURSIVE tag_categorical(_, _)
tag_categorical(t, cols) ==
    IF cols = << >> THEN t
    ELSE LET col == Head(cols)
             t1  == IF Contains(t.columns, col) THEN astype_category(t, col)
                    ELSE t
         IN  tag_categorical(t1, Tail(cols))

Clip(v, lo, hi) == IF v < lo THEN lo ELSE IF v > hi THEN hi ELSE v

\* the age column clipped to the outer bin edges after the binning
preprocess_data_clip(frame) ==
    LET binned  == SetColumn(frame, "age_group", cut(frame.vals["age"]),
                             "category", labels)
        clipped == SetColumn(binned, "age",
                             [i \in DOMAIN binned.vals["age"] |->
                                 Clip(binned.vals["age"][i],
                                      bins[1], bins[Len(bins)])],
                             binned.dtype["age"], binned.categories["age"])
    IN  [df |-> frame, data |-> tag_categorical(clipped, categorical_cols)]

\* without df.copy(): the caller's table is the one that is changed
preprocess_data_inplace(frame) ==
    LET binned == SetColumn(frame, "age_group", cut(frame.vals["age"]),
                            "category", labels)
        tagged == tag_categorical(binned, categorical_cols)
    IN  [df |-> tagged, data |-> tagged]

\* preprocess_data(df): df is the caller's table after the call, data the
\* table returned
preprocess_data(frame) ==
    LET copy   == frame
        binned == SetColumn(copy, "age_group", cut(copy.vals["age"]),
                            "category", labels)
        tagged == tag_categorical(binned, categorical_cols)
    IN  [df |-> frame, data |-> tagged]

(***************************************************************************)
(* pandas and plotly calls of the pages.                                   *)
(***************************************************************************)
is_numeric_dtype(dtype) == dtype \in {"int64", "float64"}

\* data.select_dtypes(include=np.number).columns
numeric_columns(t) ==
    SelectSeq(t.columns, LAMBDA c : is_numeric_dtype(t.dtype[c]))

\* data.columns.drop(name)
columns_drop(t, name) == SelectSeq(t.columns, LAMBDA c : c # name)

\* Series.value_counts(): [key, count] per value, most frequent first.  A
\* categorical column counts every category (also the empty ones), any
\* other column the values that occur, in order of first appearance;
\* missing values are not counted.
value_counts(t, col) ==
    LET keys == IF t.dtype[col] = "category" THEN t.categories[col]
                ELSE Unique(t.vals[col])
    IN  sort_values_desc(
            [k \in DOMAIN keys |->
                [key |-> keys[k], count |-> CountOf(t.vals[col], keys[k])]])

NoChart ==
    [kind |-> "", x |-> "", y |-> "", color |-> "", names |-> << >>,
     values |-> << >>, nbins |-> 0]

nbins == 30

\* px.pie(values=..., names=...): plotly refuses arguments of different
\* lengths with a ValueError
px_pie(values, names) ==
    IF Len(values) # Len(names)
    THEN [error |-> "ValueError", chart |-> NoChart]
    ELSE [error |-> "",
          chart |-> [NoChart EXCEPT !.kind = "pie", !.names = names,
                                    !.values = values]]

\* st.selectbox(label, options): the user's choice, or the first option
\* (index=0) while the widget is untouched
selectbox_second(sel, options) ==
    IF sel = NoSel THEN options[IF Len(options) > 1 THEN 2 ELSE 1] ELSE sel

selectbox(sel, options) == IF sel = NoSel THEN options[1] ELSE sel

(***************************************************************************)
(* The pages (lines 42-234).  What a run displays is a record              *)
(*    ran     : the presentation routines the run entered, in order        *)
(*    error   : the exception that ended the run, "" if none               *)
(*    title, metrics, shape, dtypes, described, text : what it wrote       *)
(*    charts  : the charts given to st.plotly_chart, in order              *)
(*    widgets : the select boxes it showed in the page body                *)
(*    footer  : whether the closing st.markdown of line 234 was reached    *)
(***************************************************************************)
PageOptions ==
    <<"Home", "Data Overview", "Distributions", "Relationships",
      "Target Analysis", "Summary">>

Blank ==
    [ran |-> << >>, error |-> "", title |-> "", metrics |-> << >>,
     shape |-> << >>, dtypes |-> << >>, described |-> << >>, text |-> << >>,
     charts |-> << >>, widgets |-> << >>, footer |-> FALSE]

Widget(label, options, value) ==
    [label |-> label, options |-> options, value |-> value]

\* data["target"].count(): the number of rows with a target
heart_disease_cases_count(t) == Len(t.vals["target"])

\* int(data["target"].sum())
heart_disease_cases(t) == Sum(t.vals["target"])

Home(t) ==
    [Blank EXCEPT
        !.title = "Heart Disease Analysis Dashboard",
        !.metrics = << <<"Total Patients", NumRows(t)>>,
                       <<"Heart Disease Cases", heart_disease_cases(t)>> >>]

DataOverview(t) ==
    [Blank EXCEPT
        !.title = "Dataset Overview",
        !.shape = <<NumRows(t), Len(t.columns)>>,
        !.dtypes = [i \in DOMAIN t.columns |-> t.dtype[t.columns[i]]],
        !.described = numeric_columns(t)]

Distributions(t, fsel) ==
    LET feature == selectbox(fsel, t.columns)
        vc      == value_counts(t, feature)
        shown   == <<Widget("Select Feature", t.columns, feature)>>
    IN  IF is_numeric_dtype(t.dtype[feature])
        THEN [Blank EXCEPT
                !.title = "Feature Distribution",
                !.widgets = shown,
                !.charts = <<[NoChart EXCEPT !.kind = "histogram",
                                             !.x = feature, !.nbins = nbins],
                             [NoChart EXCEPT !.kind = "box", !.y = feature]>>]
        ELSE [Blank EXCEPT
                !.title = "Feature Distribution",
                !.widgets = shown,
                !.charts = <<[NoChart EXCEPT
                                !.kind = "pie",
                                !.names = [i \in DOMAIN vc |-> vc[i].key],
                                !.values = [i \in DOMAIN vc |-> vc[i].count]]>>]

Relationships(t, xsel, ysel) ==
    LET numeric_cols == numeric_columns(t)
        x_feature    == selectbox(xsel, numeric_cols)
        y_feature    == selectbox(ysel, numeric_cols)
    IN  [Blank EXCEPT
            !.title = "Relationship Analysis",
            !.widgets = <<Widget("Select X Axis", numeric_cols, x_feature),
                          Widget("Select Y Axis", numeric_cols, y_feature)>>,
            !.charts = <<[NoChart EXCEPT !.kind = "imshow",
                                         !.names = numeric_cols],
                         [NoChart EXCEPT !.kind = "scatter", !.x = x_feature,
                                         !.y = y_feature,
                                         !.color = "target"]>>]

TargetAnalysis(t, fsel) ==
    LET target_counts == value_counts(t, "target")
        pie     == px_pie([i \in DOMAIN target_counts |->
                              target_counts[i].count],
                          <<"No Disease", "Disease">>)
        options == columns_drop(t, "target")
        feature == selectbox(fsel, options)
    IN  IF pie.error # ""
        THEN [Blank EXCEPT !.title = "Target Analysis",
                           !.error = pie.error]
        ELSE [Blank EXCEPT
                !.title = "Target Analysis",
                !.widgets = <<Widget("Select Feature", options, feature)>>,
                !.charts =
                    <<pie.chart,
                      IF is_numeric_dtype(t.dtype[feature])
                      THEN [NoChart EXCEPT !.kind = "box", !.x = "target",
                                           !.y = feature]
                      ELSE [NoChart EXCEPT !.kind = "bar", !.x = feature,
                                           !.color = "target"]>>]

Summary ==
    [Blank EXCEPT
        !.title = "Summary",
        !.text = <<"Age shows a significant relationship with heart disease prevalence.",
                   "Maximum heart rate has negative correlation with disease risk.",
                   "Chest pain type is an important diagnostic factor.",
                   "Exercise induced angina is associated with higher risk.",
                   "Cholesterol and resting blood pressure contribute to overall risk assessment.">>]

\* a chain whose fifth comparison misspells the option
Dispatch_misspelt(page) ==
    IF page = "Home" THEN <<"Home">>
    ELSE IF page = "Data Overview" THEN <<"Data Overview">>
    ELSE IF page = "Distributions" THEN <<"Distributions">>
    ELSE IF page = "Relationships" THEN <<"Relationships">>
    ELSE IF page = "Target analysis" THEN <<"Target Analysis">>
    ELSE IF page = "Summary" THEN <<"Summary">>
    ELSE << >>

\* the if/elif chain of lines 56-224: the branches a run enters
Dispatch(page) ==
    IF page = "Home" THEN <<"Home">>
    ELSE IF page = "Data Overview" THEN <<"Data Overview">>
    ELSE IF page = "Distributions" THEN <<"Distributions">>
    ELSE IF page = "Relationships" THEN <<"Relationships">>
    ELSE IF page = "Target Analysis" THEN <<"Target Analysis">>
    ELSE IF page = "Summary" THEN <<"Summary">>
    ELSE << >>

Routine(name, t, fsel, xsel, ysel) ==
    CASE name = "Home"            -> Home(t)
      [] name = "Data Overview"   -> DataOverview(t)
      [] name = "Distributions"   -> Distributions(t, fsel)
      [] name = "Relationships"   -> Relationships(t, xsel, ysel)
      [] name = "Target Analysis" -> TargetAnalysis(t, fsel)
      [] name = "Summary"         -> Summary

\* the page body and the closing line, which an exception skips
Render(t, page, fsel, xsel, ysel) ==
    LET entered == Dispatch(page)
        body    == IF entered = << >> THEN Blank
                   ELSE Routine(entered[1], t, fsel, xsel, ysel)
    IN  [body EXCEPT !.ran = entered, !.footer = (body.error = "")]

\* one execution of the script under the given widget state
Script(file, psel, fsel, xsel, ysel) ==
    LET loaded == load_data(file)
        pre    == preprocess_data(loaded)
        page   == selectbox(psel, PageOptions)
    IN  [df |-> pre.df, data |-> pre.data, page |-> page,
         out |-> Render(pre.data, page, fsel, xsel, ysel)]

(***************************************************************************)
(* The session.                                                            *)
(***************************************************************************)
ColumnNames == Range(CsvColumns) \cup {"age_group"}

\* the first run of a session: no widget touched
Init ==
    /\ csv \in Tables
    /\ page_sel = NoSel
    /\ feat_sel = NoSel
    /\ x_sel = NoSel
    /\ y_sel = NoSel
    /\ df = Script(csv, NoSel, NoSel, NoSel, NoSel).df
    /\ data = Script(csv, NoSel, NoSel, NoSel, NoSel).data
    /\ out = Script(csv, NoSel, NoSel, NoSel, NoSel).out

Rerun(psel, fsel, xsel, ysel) ==
    LET run == Script(csv, psel, fsel, xsel, ysel)
    IN  /\ page_sel' = psel
        /\ feat_sel' = fsel
        /\ x_sel' = xsel
        /\ y_sel' = ysel
        /\ df' = run.df
        /\ data' = run.data
        /\ out' = run.out
        /\ UNCHANGED csv

Shown(label) == {w \in Range(out.widgets) : w.label = label}

CanPick(label, c) ==
    \E w \in Shown(label) : Contains(w.options, c) /\ c # w.value

\* the user picks another page in the sidebar; the select boxes of the page
\* left are gone, and those of the new page start untouched
SelectPage(p) ==
    /\ p # selectbox(page_sel, PageOptions)
    /\ Rerun(p, NoSel, NoSel, NoSel)

\* the user picks a column in "Select Feature"
SelectFeature(c) ==
    /\ CanPick("Select Feature", c)
    /\ Rerun(page_sel, c, x_sel, y_sel)

\* the user picks a column in "Select X Axis"
SelectXAxis(c) ==
    /\ CanPick("Select X Axis", c)
    /\ Rerun(page_sel, feat_sel, c, y_sel)

\* the user picks a column in "Select Y Axis"
SelectYAxis(c) ==
    /\ CanPick("Select Y Axis", c)
    /\ Rerun(page_sel, feat_sel, x_sel, c)

Next ==
    \/ \E p \in Range(PageOptions) : SelectPage(p)
    \/ \E c \in ColumnNames : SelectFeature(c)
    \/ \E c \in ColumnNames : SelectXAxis(c)
    \/ \E c \in ColumnNames : SelectYAxis(c)

Spec == Init /\ [][Next]_vars

(***************************************************************************)
(* Properties.                                                             *)
(***************************************************************************)
\* the page of the run the state shows
Page == selectbox(page_sel, PageOptions)

Ages == data.vals["age"]
AgeGroups == data.vals["age_group"]
CsvTargets == csv.vals["target"]

CategoricalColumns(t) == {c \in Range(t.columns) : t.dtype[c] = "category"}

\* C1: every run enters exactly one presentation routine, the one of the
\* page selected, and the page is one of the six options.
C1_ExactlyOneRoutine ==
    /\ Contains(PageOptions, Page)
    /\ Len(out.ran) = 1
    /\ out.ran[1] = Page
    /\ out.title # ""

C1_Witness ==
    /\ Page = "Summary"
    /\ out.ran = <<"Summary">>
    /\ Len(out.text) = 5

\* C2: every row with an age in [0,100] is Young for 0 <= age <= 40 (0
\* included), Middle for 40 < age <= 50, Senior for 50 < age <= 60 and
\* Elder for 60 < age <= 100.
C2_AgeGroupsFromZero ==
    \A i \in DOMAIN Ages :
        (0 <= Ages[i] /\ Ages[i] <= 100) =>
            AgeGroups[i] = IF Ages[i] <= 40 THEN "Young"
                           ELSE IF Ages[i] <= 50 THEN "Middle"
                           ELSE IF Ages[i] <= 60 THEN "Senior"
                           ELSE "Elder"

\* C3: on the Target Analysis page the slice labelled "No Disease" carries
\* the number of rows with target 0 and the slice labelled "Disease" the
\* number of rows with target 1, whichever class is the larger.
C3_SlicesInIndexOrder ==
    (Page = "Target Analysis" /\ out.error = "") =>
        /\ out.charts[1].names = <<"No Disease", "Disease">>
        /\ out.charts[1].values =
               <<CountOf(CsvTargets, 0), CountOf(CsvTargets, 1)>>

\* C4: on the Target Analysis page the pie chart always has the two slices
\* "No Disease" and "Disease", as many values as labels, also when one of
\* the classes has no row.
C4_AlwaysTwoSlices ==
    Page = "Target Analysis" =>
        /\ out.error = ""
        /\ Len(out.charts) >= 1
        /\ out.charts[1].kind = "pie"
        /\ out.charts[1].names = <<"No Disease", "Disease">>
        /\ Len(out.charts[1].values) = Len(out.charts[1].names)

\* the nominal columns of the data model, without and with the target
ListedNominal ==
    {"sex", "cp", "fbs", "restecg", "exang", "slope", "ca", "thal"}
NominalWithTarget == ListedNominal \cup {"target"}

FeatureShown(c) == \E w \in Shown("Select Feature") : w.value = c

\* column c is an unordered label for every page that branches on the kind
TreatedAsLabel(c) ==
    /\ data.dtype[c] = "category"
    /\ ~Contains(numeric_columns(data), c)
    /\ (Page = "Distributions" /\ FeatureShown(c)) =>
           out.charts[1].kind = "pie"
    /\ (Page = "Target Analysis" /\ FeatureShown(c)) =>
           out.charts[2].kind = "bar"
    /\ Page = "Relationships" =>
           /\ ~Contains(out.charts[1].names, c)
           /\ \A w \in Range(out.widgets) : ~Contains(w.options, c)
    /\ Page = "Data Overview" => ~Contains(out.described, c)

\* column c is a number for every page that branches on the kind
TreatedAsNumber(c) ==
    /\ is_numeric_dtype(data.dtype[c])
    /\ Contains(numeric_columns(data), c)
    /\ (Page = "Distributions" /\ FeatureShown(c)) =>
           out.charts[1].kind = "histogram"
    /\ Page = "Relationships" =>
           /\ Contains(out.charts[1].names, c)
           /\ \A w \in Range(out.widgets) : Contains(w.options, c)
    /\ Page = "Data Overview" => Contains(out.described, c)

\* C5 as stated: every nominal column of the data model, the target
\* included, is tagged categorical and treated as an unordered label.
C5_AllNominalAreLabels ==
    \A c \in NominalWithTarget \cap Range(data.columns) : TreatedAsLabel(c)

\* C5 as amended: the eight listed columns, where the file has them, are
\* tagged categorical and treated as labels; the target stays an integer
\* column and is treated as a number.
C5_ListedAreLabelsTargetIsNumber ==
    /\ \A c \in ListedNominal \cap Range(data.columns) : TreatedAsLabel(c)
    /\ TreatedAsNumber("target")

C5_Witness ==
    /\ Page = "Distributions"
    /\ FeatureShown("ca")
    /\ out.charts[1].kind = "pie"

Scatter == out.charts[2]

\* C6 as stated: with both axis widgets untouched, X is the first and Y the
\* second numeric column.
C6_DefaultsFirstTwoNumeric ==
    (Page = "Relationships" /\ x_sel = NoSel /\ y_sel = NoSel) =>
        /\ Scatter.x = numeric_columns(data)[1]
        /\ Scatter.y = numeric_columns(data)[2]

\* C6 as amended: an untouched axis widget holds the first numeric column,
\* so with both untouched X = Y; a touched one holds what the user picked.
C6_DefaultsBothFirstNumeric ==
    Page = "Relationships" =>
        /\ Scatter.kind = "scatter"
        /\ Scatter.x = IF x_sel = NoSel THEN numeric_columns(data)[1]
                       ELSE x_sel
        /\ Scatter.y = IF y_sel = NoSel THEN numeric_columns(data)[1]
                       ELSE y_sel
        /\ (x_sel = NoSel /\ y_sel = NoSel) => Scatter.x = Scatter.y

C6_Witness ==
    /\ Page = "Relationships"
    /\ x_sel = NoSel
    /\ y_sel = NoSel
    /\ Scatter.x = "age"
    /\ Scatter.y = "age"
    /\ Len(numeric_columns(data)) >= 2

\* C7: a row whose age is below 0 or above 100 is kept, and its age group
\* is the missing value, which is none of the four labels; the run goes on
\* to its page.
C7_OutOfRangeUnclassified ==
    /\ NumRows(data) = NumRows(csv)
    /\ Ages = csv.vals["age"]
    /\ NaN \notin Range(labels)
    /\ \A i \in DOMAIN Ages :
           (Ages[i] < 0 \/ Ages[i] > 100) => AgeGroups[i] = NaN
    /\ Len(out.ran) = 1

C7_Witness ==
    /\ \E i \in DOMAIN Ages : Ages[i] > 100 /\ AgeGroups[i] = NaN
    /\ out.ran = <<"Data Overview">>

\* C8: preprocessing the preprocessed table again gives the same age group
\* in every row and the same set of categorical columns.
C8_Idempotent ==
    LET again == preprocess_data(data).data
    IN  /\ again.vals["age_group"] = AgeGroups
        /\ CategoricalColumns(again) = CategoricalColumns(data)

C8_Witness ==
    /\ \E i \in DOMAIN Ages : Ages[i] > 100
    /\ \E i \in DOMAIN Ages : AgeGroups[i] = "Young"
    /\ "age_group" \in CategoricalColumns(preprocess_data(data).data)
    /\ "thal" \in CategoricalColumns(preprocess_data(data).data)

\* C9: on the Home page "Heart Disease Cases" is the sum of the file's
\* target column, which is the number of its rows with target 1, whatever
\* was visited before.
C9_HeartDiseaseCases ==
    Page = "Home" =>
        /\ out.metrics[2] = <<"Heart Disease Cases", Sum(CsvTargets)>>
        /\ out.metrics[2][2] = CountOf(CsvTargets, 1)

C9_Witness ==
    /\ page_sel = "Home"
    /\ CsvTargets = ScenarioTargets
    /\ out.metrics[2] = <<"Heart Disease Cases", 2>>

\* C10: the loaded table is the file's table before and after every run
\* (preprocess_data works on a copy) and no run changes the preprocessed
\* table.
C10_TablesUnchanged ==
    [][df = csv /\ df' = csv /\ data' = data]_vars

C10_Witness ==
    /\ x_sel # NoSel
    /\ y_sel # NoSel
    /\ df = csv
    /\ ~Contains(df.columns, "age_group")
    /\ Contains(data.columns, "age_group")

====
